---- MODULE Spec2Model ----
(***************************************************************************)
(* A model of the Axiom CLI (src/axiom.py, src/intent_core.py): the        *)
(* repository locator, the schema manager, the metadata store, the record  *)
(* store, the identifier resolver and the multi-line reader.               *)
(*                                                                         *)
(* Text is a sequence of one-character strings, a path is the sequence of  *)
(* its components (<<>> is the filesystem root), and a timestamp is the    *)
(* sequence of character codes datetime.isoformat() produces.              *)
(***************************************************************************)
EXTENDS Integers, Sequences, FiniteSets

VARIABLES
    markers,    \* the `.git` entries of the filesystem: [path, kind]
    cwd,        \* the current working directory
    found,      \* what the last call of find_repo_root returned
    rm,         \* the last call of read_multiline: its input and its result
    intentDir,  \* <root>/.intent: "absent", "dir" or "file"
    dbExists,   \* whether <root>/.intent/intent.db exists
    dbTables,   \* the names in sqlite_master of type 'table'
    intents,    \* the rows of table intents, in rowid order
    meta,       \* the content of <root>/.intent/meta.json
    newCount,   \* how many times `new` has succeeded
    initDone,   \* whether `init` has succeeded
    last        \* the last CLI command: its arguments and what it printed

vars == <<markers, cwd, found, rm, intentDir, dbExists, dbTables, intents,
          meta, newCount, initDone, last>>

(***************************************************************************)
(* Bounds of the model.                                                    *)
(***************************************************************************)
MaxDepth == 2       \* directories are at most this deep
MaxMarkers == 2     \* at most this many `.git` entries in the filesystem
MaxLines == 8       \* read_multiline is given at most this many lines
MaxIntents == 2     \* `new` is run while fewer rows than this are stored

SeqsUpTo(S, n) == UNION {[1..k -> S] : k \in 0..n}

RECURSIVE SubsetsUpTo(_, _)
SubsetsUpTo(S, n) ==
    IF n = 0 THEN {{}}
    ELSE LET smaller == SubsetsUpTo(S, n - 1)
         IN  smaller \cup {s \cup {e} : s \in smaller, e \in S}

(***************************************************************************)
(* Repository Locator: intent_core.find_repo_root                          *)
(***************************************************************************)
Names == {"a", "b"}

Dirs == SeqsUpTo(Names, MaxDepth)

\* Path.parent: the parent of the filesystem root is the root itself.
Parent(p) == IF p = <<>> THEN p ELSE SubSeq(p, 1, Len(p) - 1)

\* git_dir.exists() and git_dir.is_dir()
IsGitDir(m, dir) == [path |-> dir, kind |-> "dir"] \in m

NotFound == [ok |-> FALSE, root |-> <<>>]

\* The loop of find_repo_root, from `current` upwards.
RECURSIVE FindLoop(_, _)
FindLoop(m, current) ==
    IF current # Parent(current)
    THEN IF IsGitDir(m, current)
         THEN [ok |-> TRUE, root |-> current]
         ELSE FindLoop(m, Parent(current))
    ELSE NotFound

find_repo_root(m, start_path) == FindLoop(m, start_path)

\* get_intent_dir: the repository root that holds .intent, or the failure.
get_intent_dir(m, dir) == find_repo_root(m, dir)

MarkerUniverse == [path : Dirs, kind : {"dir", "file"}]

\* A directory holds at most one entry named `.git`.
Filesystems ==
    {m \in SubsetsUpTo(MarkerUniverse, MaxMarkers) :
        \A x \in m, y \in m : x.path = y.path => x = y}

NoCall == [called |-> FALSE, start |-> <<>>, ok |-> FALSE, root |-> <<>>]

InitRoot ==
    /\ markers \in Filesystems
    /\ cwd \in Dirs
    /\ found = NoCall

CallFindRepoRoot ==
    /\ ~found.called
    /\ LET r == find_repo_root(markers, cwd)
       IN  found' = [called |-> TRUE, start |-> cwd, ok |-> r.ok, root |-> r.root]
    /\ UNCHANGED <<markers, cwd>>

(***************************************************************************)
(* Multi-line reader: axiom.read_multiline                                 *)
(***************************************************************************)
TerminatorRun == 3

NL == "\n"

\* The while loop: input() until the third consecutive empty line. A line
\* is appended unless it is the one that ends the loop. Running out of
\* input raises EOFError.
RECURSIVE ReadLoop(_, _, _)
ReadLoop(input, lines, empty_count) ==
    IF input = <<>>
    THEN [eof |-> TRUE, lines |-> lines, rest |-> <<>>]
    ELSE LET line == Head(input)
         IN  IF line = <<>>
             THEN IF empty_count + 1 >= TerminatorRun
                  THEN [eof |-> FALSE, lines |-> lines, rest |-> Tail(input)]
                  ELSE ReadLoop(Tail(input), Append(lines, line), empty_count + 1)
             ELSE ReadLoop(Tail(input), Append(lines, line), 0)

\* A variant that pops without looking at the line it pops.
RECURSIVE PopBlindly(_, _)
PopBlindly(lines, n) ==
    IF n = 0 \/ lines = <<>> THEN lines
    ELSE PopBlindly(SubSeq(lines, 1, Len(lines) - 1), n - 1)

\* for _ in range(3): if lines and lines[-1] == "": lines.pop()
RECURSIVE PopTrailingEmpty(_, _)
PopTrailingEmpty(lines, n) ==
    IF n = 0 THEN lines
    ELSE IF lines # <<>> /\ lines[Len(lines)] = <<>>
         THEN PopTrailingEmpty(SubSeq(lines, 1, Len(lines) - 1), n - 1)
         ELSE PopTrailingEmpty(lines, n - 1)

\* "\n".join(lines)
RECURSIVE Join(_)
Join(lines) ==
    IF lines = <<>> THEN <<>>
    ELSE IF Len(lines) = 1 THEN lines[1]
         ELSE lines[1] \o <<NL>> \o Join(Tail(lines))

read_multiline(input) ==
    LET r == ReadLoop(input, <<>>, 0)
    IN  IF r.eof
        THEN [eof |-> TRUE, text |-> <<>>, rest |-> <<>>]
        ELSE [eof |-> FALSE,
              text |-> Join(PopTrailingEmpty(r.lines, TerminatorRun)),
              rest |-> r.rest]

LineValues == {<<>>, <<"x">>, <<" ">>}

NoRead == [called |-> FALSE, input |-> <<>>, eof |-> FALSE, text |-> <<>>,
           rest |-> <<>>]

InitRead ==
    /\ \E input \in SeqsUpTo(LineValues, MaxLines) :
           rm = [NoRead EXCEPT !.input = input]

CallReadMultiline ==
    /\ ~rm.called
    /\ LET r == read_multiline(rm.input)
       IN  rm' = [called |-> TRUE, input |-> rm.input, eof |-> r.eof,
                  text |-> r.text, rest |-> r.rest]

(***************************************************************************)
(* Text, timestamps and identifiers                                        *)
(***************************************************************************)
Space == " "

\* str.strip()
RECURSIVE LStrip(_)
LStrip(s) == IF s # <<>> /\ Head(s) = Space THEN LStrip(Tail(s)) ELSE s

RECURSIVE RStrip(_)
RStrip(s) ==
    IF s # <<>> /\ s[Len(s)] = Space
    THEN RStrip(SubSeq(s, 1, Len(s) - 1))
    ELSE s

Strip(s) == RStrip(LStrip(s))

\* datetime.now(): the local wall clock, which may stand still between two
\* runs or be set back. Only the seconds digit and the fraction are kept.
T0 == [sec |-> 0, usec |-> 0]
T05 == [sec |-> 0, usec |-> 5]
T1 == [sec |-> 1, usec |-> 0]

Times == {T0, T05, T1}

\* datetime.isoformat(): the fraction is left out when it is zero.
IsoFormat(t) ==
    <<48 + t.sec>> \o (IF t.usec = 0 THEN <<>> ELSE <<46, 48 + t.usec>>)

\* SQLite's BINARY collation of TEXT: memcmp, then the shorter is less.
RECURSIVE TextLess(_, _)
TextLess(x, y) ==
    IF y = <<>> THEN FALSE
    ELSE IF x = <<>> THEN TRUE
    ELSE IF Head(x) # Head(y) THEN Head(x) < Head(y)
    ELSE TextLess(Tail(x), Tail(y))

\* str(uuid.uuid4()): 8-4-4-4-12 lower-case hexadecimal digits.
UuidLen == 36
MinPrefixLen == 6

UuidTail ==
    <<"-", "0", "0", "0", "0", "-", "4", "0", "0", "0", "-", "8", "0", "0",
      "0", "-", "0", "0", "0", "0", "0", "0", "0", "0", "0", "0", "0", "0">>

Uuid1 == <<"a", "b", "c", "d", "e", "f", "0", "1">> \o UuidTail
Uuid2 == <<"a", "b", "c", "d", "e", "f", "0", "2">> \o UuidTail
Uuid3 == <<"a", "1", "c", "d", "e", "f", "0", "1">> \o UuidTail

Uuids == {Uuid1, Uuid2, Uuid3}

\* SQLite's LIKE folds the case of ASCII letters.
FoldCase(c) ==
    CASE c = "A" -> "a" [] c = "B" -> "b" [] c = "C" -> "c"
      [] c = "D" -> "d" [] c = "E" -> "e" [] c = "F" -> "f"
      [] OTHER -> c

\* SQLite's LIKE: % matches any run of characters, _ any one character,
\* and there is no escape character. LikeFrom matches pattern[i..] against
\* s[j..].
RECURSIVE LikeFrom(_, _, _, _)
LikeFrom(pattern, s, i, j) ==
    IF i > Len(pattern) THEN j > Len(s)
    ELSE IF pattern[i] = "%"
         THEN \E k \in j..(Len(s) + 1) : LikeFrom(pattern, s, i + 1, k)
    ELSE IF j > Len(s) THEN FALSE
    ELSE IF pattern[i] = "_" THEN LikeFrom(pattern, s, i + 1, j + 1)
    ELSE /\ FoldCase(pattern[i]) = FoldCase(s[j])
         /\ LikeFrom(pattern, s, i + 1, j + 1)

Like(pattern, s) == LikeFrom(pattern, s, 1, 1)

(***************************************************************************)
(* Schema Manager: intent_core.create_database_schema and                  *)
(* intent_core.ensure_database_schema                                      *)
(***************************************************************************)
RequiredTables == {"intents", "assumptions", "decisions"}

TableNames == RequiredTables \cup {"legacy"}

\* CREATE TABLE IF NOT EXISTS, three times: the tables of the file afterwards.
create_database_schema(tables) == tables \cup RequiredTables

\* SELECT name FROM sqlite_master
\* WHERE type='table' AND name IN ('intents', 'assumptions', 'decisions')
ExistingTables(tables) == {t \in tables : t \in RequiredTables}

ensure_database_schema(exists, tables) ==
    IF ~exists
    THEN [ok |-> TRUE, tables |-> create_database_schema({}),
          missing |-> {}, extra |-> {}]
    ELSE LET existing_tables == ExistingTables(tables)
         IN  [ok |-> existing_tables = RequiredTables,
              tables |-> tables,
              missing |-> RequiredTables \ existing_tables,
              extra |-> existing_tables \ RequiredTables]

(***************************************************************************)
(* Metadata Store: intent_core.ensure_meta_json                            *)
(*                                                                         *)
(* The content of meta.json is kept by its kind: "absent" (no file),       *)
(* "blank" (nothing but white space), "unparsable" (not JSON),             *)
(* "invalid_utf8" (not UTF-8), or the JSON value it parses to: "object",   *)
(* "list", "string", "number", "bool", "null". `keys` holds the names x    *)
(* for which Python's `x in data` is true: the keys of an object, the      *)
(* elements of a list, the substrings of a string.                         *)
(***************************************************************************)
RequiredFields == {"repo_path", "created_at", "schema_version"}

SchemaVersion == "0.1"

MetaOf(kind, keys) ==
    [kind |-> kind, keys |-> keys, repo_path |-> <<>>, created_at |-> <<>>,
     schema_version |-> ""]

MetaAbsent == MetaOf("absent", {})

\* json.dumps(meta_data, indent=2) of the three fields
MetaData(repo_root, now) ==
    [kind |-> "object", keys |-> RequiredFields, repo_path |-> repo_root,
     created_at |-> IsoFormat(now), schema_version |-> SchemaVersion]

Containers == {"object", "list", "string"}

\* The try block: "needs_init", "valid", or the exception that leaves it.
MetaCheck(m) ==
    IF m.kind = "absent" THEN "needs_init"
    ELSE IF m.kind = "invalid_utf8" THEN "UnicodeDecodeError"
    ELSE IF m.kind \in {"blank", "unparsable"} THEN "needs_init"
    ELSE IF m.kind \in Containers
         THEN IF \A field \in RequiredFields : field \in m.keys
              THEN "valid"
              ELSE "needs_init"
    ELSE "TypeError"

\* A variant that writes the descriptor whenever it could be read.
ensure_meta_json_always(m, repo_root, now) ==
    LET check == MetaCheck(m)
    IN  IF check \in {"needs_init", "valid"}
        THEN [outcome |-> "ok", meta |-> MetaData(repo_root, now)]
        ELSE [outcome |-> check, meta |-> m]

ensure_meta_json(m, repo_root, now) ==
    LET check == MetaCheck(m)
    IN  IF check = "needs_init"
        THEN [outcome |-> "ok", meta |-> MetaData(repo_root, now)]
        ELSE IF check = "valid"
             THEN [outcome |-> "ok", meta |-> m]
             ELSE [outcome |-> check, meta |-> m]

(***************************************************************************)
(* The commands: axiom.cmd_init, cmd_new, cmd_list, cmd_show               *)
(***************************************************************************)
NoCmd ==
    [op |-> "none", outcome |-> "none", again |-> FALSE, arg |-> <<>>,
     id |-> <<>>, prefixed |-> FALSE, matches |-> {}, rows |-> <<>>,
     missing |-> {}, extra |-> {}]

Out(op, outcome) == [NoCmd EXCEPT !.op = op, !.outcome = outcome]

store == <<intentDir, dbExists, dbTables, intents, meta, newCount, initDone>>

\* The files under <root>/.intent
files == <<intentDir, dbExists, dbTables, intents, meta>>

\* intent_core.init_intent_structure, as cmd_init runs it. `again` records
\* that an earlier `init` had succeeded.
CmdInit(times) ==
    \E now \in times :
        LET repo == find_repo_root(markers, cwd)
            Says(outcome) == [Out("init", outcome) EXCEPT !.again = initDone]
        IN  IF ~repo.ok
            THEN /\ last' = Says("not_a_repo")
                 /\ UNCHANGED store
            ELSE IF intentDir = "file"
            THEN /\ last' = Says("mkdir_failed")
                 /\ UNCHANGED store
            ELSE LET db == ensure_database_schema(dbExists, dbTables)
                 IN  /\ intentDir' = "dir"
                     /\ dbExists' = TRUE
                     /\ dbTables' = db.tables
                     /\ UNCHANGED <<intents, newCount>>
                     /\ IF ~db.ok
                        THEN /\ meta' = meta
                             /\ initDone' = initDone
                             /\ last' = [Says("schema_mismatch") EXCEPT
                                            !.missing = db.missing,
                                            !.extra = db.extra]
                        ELSE LET mj == ensure_meta_json(meta, repo.root, now)
                             IN  /\ meta' = mj.meta
                                 /\ initDone' = (initDone \/ mj.outcome = "ok")
                                 /\ last' = Says(mj.outcome)

Blank == <<>>

End3 == <<Blank, Blank, Blank>>

\* What the user types to `new`: the title, then three fields.
ScriptA ==
    << <<" ", "A", " ">>, <<"x">>, Blank, <<"y">> >> \o End3 \o End3
        \o << <<"x">> >> \o End3
ScriptB == << <<"B">> >> \o End3 \o << Blank, <<"x">> >> \o End3 \o End3
ScriptBlankTitle == << <<" ">> >>
ScriptCutShort == << <<"A">>, <<"x">>, Blank, Blank >>
ScriptNone == <<>>

Scripts == {ScriptA, ScriptB, ScriptBlankTitle, ScriptCutShort, ScriptNone}

\* The prompts of cmd_new: what they collect from `stdin`, or how they fail.
ReadForm(stdin) ==
    IF stdin = <<>> THEN [outcome |-> "EOFError"]
    ELSE LET title == Strip(Head(stdin))
         IN  IF title = <<>> THEN [outcome |-> "title_required"]
             ELSE LET problem == read_multiline(Tail(stdin))
                      context == read_multiline(problem.rest)
                      constraints == read_multiline(context.rest)
                  IN  IF problem.eof \/ context.eof \/ constraints.eof
                      THEN [outcome |-> "EOFError"]
                      ELSE [outcome |-> "ok", title |-> title,
                            problem |-> problem.text,
                            context |-> context.text,
                            constraints |-> constraints.text]

RowIds(rows) == {rows[i].id : i \in DOMAIN rows}

\* A variant that binds two of the values to each other's column.
NewRowSwapped(intent_id, form, now) ==
    [id |-> intent_id, title |-> form.title, problem |-> form.problem,
     context |-> form.constraints, constraints |-> form.context,
     status |-> "draft", created_at |-> IsoFormat(now),
     updated_at |-> IsoFormat(now)]

\* The values of the INSERT of cmd_new, in the order of its columns.
NewRow(intent_id, form, now) ==
    [id |-> intent_id, title |-> form.title, problem |-> form.problem,
     context |-> form.context, constraints |-> form.constraints,
     status |-> "draft", created_at |-> IsoFormat(now),
     updated_at |-> IsoFormat(now)]

\* A variant that overwrites the row whose id is stored already.
InsertOrReplace(rows, row) ==
    IF row.id \in RowIds(rows)
    THEN [ok |-> TRUE,
          rows |-> [i \in DOMAIN rows |->
                       IF rows[i].id = row.id THEN row ELSE rows[i]]]
    ELSE [ok |-> TRUE, rows |-> Append(rows, row)]

\* INSERT INTO intents, where id is TEXT PRIMARY KEY: a row whose id is
\* stored already is refused (sqlite3.IntegrityError).
InsertIntent(rows, row) ==
    IF row.id \in RowIds(rows)
    THEN [ok |-> FALSE, rows |-> rows]
    ELSE [ok |-> TRUE, rows |-> Append(rows, row)]

CmdNew(uuids, times, scripts) ==
    /\ Len(intents) < MaxIntents
    /\ \E stdin \in scripts, intent_id \in uuids, now \in times :
        LET repo == get_intent_dir(markers, cwd)
            Says(outcome) == [Out("new", outcome) EXCEPT !.arg = stdin]
            Fails(outcome) ==
                /\ last' = Says(outcome)
                /\ UNCHANGED store
            Store(form) ==
                LET row == NewRow(intent_id, form, now)
                    inserted == InsertIntent(intents, row)
                IN  IF ~inserted.ok THEN Fails("IntegrityError")
                    ELSE /\ intents' = inserted.rows
                         /\ newCount' = newCount + 1
                         /\ last' = [Says("ok") EXCEPT !.id = intent_id]
                         /\ UNCHANGED <<intentDir, dbExists, dbTables, meta,
                                        initDone>>
        IN  IF ~repo.ok THEN Fails("not_a_repo")
            ELSE IF ~dbExists THEN Fails("not_initialized")
            ELSE \E form \in {ReadForm(stdin)} :
                   IF form.outcome # "ok" THEN Fails(form.outcome)
                   ELSE IF "intents" \notin dbTables
                        THEN Fails("OperationalError")
                   ELSE Store(form)

Listed(row) ==
    [id |-> row.id, title |-> row.title, status |-> row.status,
     created_at |-> row.created_at]

IndexPermutations(n) ==
    {p \in [1..n -> 1..n] : \A i \in 1..n, j \in 1..n : i # j => p[i] # p[j]}

\* A variant that sorts in ascending order.
OrderByCreatedAsc(rows) ==
    LET n == Len(rows)
    IN  {[i \in 1..n |-> rows[p[i]]] :
            p \in {q \in IndexPermutations(n) :
                     \A i \in 1..(n - 1) :
                        ~TextLess(rows[q[i + 1]].created_at,
                                  rows[q[i]].created_at)}}

\* ORDER BY created_at DESC: the order of rows with equal created_at is
\* not defined by SQL.
OrderByCreatedDesc(rows) ==
    LET n == Len(rows)
    IN  {[i \in 1..n |-> rows[p[i]]] :
            p \in {q \in IndexPermutations(n) :
                     \A i \in 1..(n - 1) :
                        ~TextLess(rows[q[i]].created_at,
                                  rows[q[i + 1]].created_at)}}

CmdList ==
    LET repo == get_intent_dir(markers, cwd)
    IN  /\ UNCHANGED store
        /\ IF ~repo.ok THEN last' = Out("list", "not_a_repo")
           ELSE IF ~dbExists THEN last' = Out("list", "not_initialized")
           ELSE IF "intents" \notin dbTables
                THEN last' = Out("list", "OperationalError")
           ELSE \E sorted \in OrderByCreatedDesc(intents) :
                  last' = [Out("list", "ok") EXCEPT
                              !.rows = [i \in DOMAIN sorted |-> Listed(sorted[i])]]

\* SELECT id FROM intents WHERE id LIKE ?   with   f"{prefix}%"
\* The ids are kept as a set: the order SQLite returns them in is left open.
PrefixMatches(rows, prefix) ==
    {rows[i].id : i \in {k \in DOMAIN rows : Like(prefix \o <<"%">>, rows[k].id)}}

\* A variant that settles for one of several matches.
ResolveFirst(matches) ==
    IF matches = {}
    THEN [outcome |-> "no_match", id |-> <<>>, matches |-> matches]
    ELSE [outcome |-> "ok", id |-> CHOOSE id \in matches : TRUE,
          matches |-> matches]

\* The two tests of find_intent_by_prefix on the ids its SELECT returned.
ResolveMatches(matches) ==
    IF matches = {}
    THEN [outcome |-> "no_match", id |-> <<>>, matches |-> matches]
    ELSE IF Cardinality(matches) > 1
         THEN [outcome |-> "ambiguous", id |-> <<>>, matches |-> matches]
         ELSE [outcome |-> "ok", id |-> CHOOSE id \in matches : TRUE,
               matches |-> matches]

\* find_intent_by_prefix: the outcome, the id returned and the matches.
find_intent_by_prefix(rows, prefix) ==
    CHOOSE r \in {ResolveMatches(m) : m \in {PrefixMatches(rows, prefix)}} : TRUE

\* SELECT ... FROM intents WHERE id = ?   and fetchone()
FetchById(rows, intent_id) ==
    SelectSeq(rows, LAMBDA r : r.id = intent_id)

UsesPrefix(arg) == Len(arg) >= MinPrefixLen /\ Len(arg) < UuidLen

Candidates ==
    {SubSeq(Uuid1, 1, 6), SubSeq(Uuid1, 1, 8), SubSeq(Uuid1, 1, 5), Uuid1,
     <<"A", "B", "C", "D", "E", "F", "0", "1">>,
     <<"a", "_", "c", "d", "e", "f">>,
     <<"%", "d", "e", "f", "0", "1">>,
     <<"f", "f", "f", "f", "f", "f">>}

\* cmd_show past its two guards: what it prints for `arg`.
ShowIntent(rows, arg) ==
    LET Says(outcome) == [Out("show", outcome) EXCEPT !.arg = arg]
        Fetch(resolved) ==
            LET intent == FetchById(rows, resolved.id)
            IN  IF intent = <<>>
                THEN [resolved EXCEPT !.outcome = "not_found"]
                ELSE [resolved EXCEPT !.rows = intent]
        Resolved(byPrefix) ==
            LET resolved == [Says(byPrefix.outcome) EXCEPT
                                !.prefixed = TRUE,
                                !.id = byPrefix.id,
                                !.matches = byPrefix.matches]
            IN  IF byPrefix.outcome # "ok" THEN resolved ELSE Fetch(resolved)
    IN  IF UsesPrefix(arg)
        THEN CHOOSE r \in {Resolved(b) : b \in {find_intent_by_prefix(rows, arg)}} : TRUE
        ELSE Fetch([Says("ok") EXCEPT !.id = arg])

CmdShow(candidates) ==
    \E arg \in candidates :
        LET repo == get_intent_dir(markers, cwd)
            Says(outcome) == [Out("show", outcome) EXCEPT !.arg = arg]
        IN  /\ UNCHANGED store
            /\ IF ~repo.ok THEN last' = Says("not_a_repo")
               ELSE IF ~dbExists THEN last' = Says("not_initialized")
               ELSE IF "intents" \notin dbTables
                    THEN last' = Says("OperationalError")
               ELSE last' = ShowIntent(intents, arg)

(***************************************************************************)
(* Specifications                                                          *)
(***************************************************************************)
Here == <<"a">>

RepoHere == {[path |-> Here, kind |-> "dir"]}
RepoAtRoot == {[path |-> <<>>, kind |-> "dir"]}

Idle == found = NoCall /\ rm = NoRead

NoStore ==
    /\ dbExists = FALSE
    /\ dbTables = {}
    /\ intents = <<>>
    /\ meta = MetaAbsent
    /\ newCount = 0
    /\ initDone = FALSE
    /\ last = NoCmd

\* The CLI from a project in which `init` has never run.
Init ==
    /\ markers \in {RepoHere, RepoAtRoot, {}}
    /\ cwd = Here
    /\ Idle
    /\ intentDir = "absent"
    /\ NoStore

Next ==
    /\ UNCHANGED <<markers, cwd, found, rm>>
    /\ \/ CmdInit({T0, T1})
       \/ CmdNew(Uuids, Times, Scripts)
       \/ CmdList
       \/ CmdShow(Candidates)

Spec == Init /\ [][Next]_vars

\* What meta.json may hold before `init` first runs.
ForeignMeta ==
    [kind |-> "object", keys |-> RequiredFields \cup {"note"},
     repo_path |-> <<"b">>, created_at |-> IsoFormat(T05),
     schema_version |-> "9"]

MetaInputs ==
    {MetaAbsent, ForeignMeta,
     MetaOf("blank", {}), MetaOf("unparsable", {}), MetaOf("invalid_utf8", {}),
     MetaOf("object", {}), MetaOf("object", {"repo_path", "created_at"}),
     MetaOf("list", {}), MetaOf("list", RequiredFields),
     MetaOf("string", {}), MetaOf("string", RequiredFields),
     MetaOf("number", {}), MetaOf("bool", {}), MetaOf("null", {})}

\* The CLI from a project whose .intent may hold files `init` did not write.
InitEnv ==
    /\ markers \in {RepoHere, RepoAtRoot}
    /\ cwd = Here
    /\ Idle
    /\ intentDir \in {"absent", "file", "dir"}
    /\ dbExists \in BOOLEAN
    /\ dbTables \in SUBSET TableNames
    /\ meta \in MetaInputs
    /\ intentDir # "dir" => ~dbExists /\ meta = MetaAbsent
    /\ ~dbExists => dbTables = {}
    /\ intents = <<>>
    /\ newCount = 0
    /\ initDone = FALSE
    /\ last = NoCmd

NextEnv ==
    /\ UNCHANGED <<markers, cwd, found, rm>>
    /\ \/ CmdInit({T0, T1})
       \/ CmdNew({Uuid1, Uuid2}, {T0}, {ScriptA, ScriptNone})
       \/ CmdList
       \/ CmdShow({SubSeq(Uuid1, 1, 6), Uuid2})

SpecEnv == InitEnv /\ [][NextEnv]_vars

\* find_repo_root alone, from every directory of every filesystem.
InitFind ==
    /\ InitRoot
    /\ rm = NoRead
    /\ intentDir = "absent"
    /\ NoStore

NextFind ==
    /\ CallFindRepoRoot
    /\ UNCHANGED <<rm, store, last>>

SpecFind == InitFind /\ [][NextFind]_vars

\* read_multiline alone, on every sequence of lines.
InitReadLines ==
    /\ InitRead
    /\ markers = {}
    /\ cwd = <<>>
    /\ found = NoCall
    /\ intentDir = "absent"
    /\ NoStore

NextReadLines ==
    /\ CallReadMultiline
    /\ UNCHANGED <<markers, cwd, found, store, last>>

SpecRead == InitReadLines /\ [][NextReadLines]_vars

(***************************************************************************)
(* The claims                                                              *)
(***************************************************************************)
Range(seq) == {seq[i] : i \in DOMAIN seq}

\* `init` went past its repository and directory steps.
InitReachedSchema(cmd) ==
    cmd.op = "init" /\ cmd.outcome \notin {"not_a_repo", "mkdir_failed"}

\* C1: when intent.db exists, `init` gets past ensure_database_schema only
\* if the tables of the file are exactly intents, assumptions and decisions;
\* with any other set of tables, a missing one or an extra one, it fails
\* with the schema-mismatch error.
C1_MismatchAlwaysRejected ==
    [][(dbExists /\ InitReachedSchema(last'))
        => (last'.outcome = "schema_mismatch" <=> dbTables # RequiredTables)]_vars

Ancestors(dir) == {SubSeq(dir, 1, k) : k \in 0..Len(dir)}

\* The start and its ancestors, the filesystem root included, that hold a
\* `.git` directory.
MarkedAncestors(start) ==
    {d \in Ancestors(start) : [path |-> d, kind |-> "dir"] \in markers}

\* C2: find_repo_root returns the nearest of the start and all its
\* ancestors, the filesystem root included, that holds a `.git`
\* directory, and fails only when none of them does.
C2_NearestMarkedAncestor ==
    found.called =>
        IF MarkedAncestors(found.start) = {}
        THEN ~found.ok
        ELSE /\ found.ok
             /\ found.root \in MarkedAncestors(found.start)
             /\ \A d \in MarkedAncestors(found.start) : Len(d) <= Len(found.root)

IsPrefix(p, s) == Len(p) <= Len(s) /\ SubSeq(s, 1, Len(p)) = p

PrefixLookupRan(cmd) ==
    /\ cmd.op = "show"
    /\ UsesPrefix(cmd.arg)
    /\ cmd.outcome \notin {"not_a_repo", "not_initialized", "OperationalError"}

\* C3: for a candidate of 6 to 35 characters, the ids the prefix lookup
\* treats as matches are exactly the stored ids that begin with the
\* candidate, character for character: case matters and no character is
\* a wildcard.
C3_PrefixMatchIsExact ==
    PrefixLookupRan(last) =>
        last.matches = {id \in RowIds(intents) : IsPrefix(last.arg, id)}

\* The stored ids the lookup's query selects for a candidate.
Selected(arg) == {id \in RowIds(intents) : Like(arg \o <<"%">>, id)}

\* C4: for a candidate of 6 to 35 characters the number of stored ids the
\* lookup selects decides the outcome: none, and it fails naming the
\* candidate; one, and that id is returned and its record shown; two or
\* more, and it fails listing every one of them and returns none.
C4_OutcomeByNumberOfMatches ==
    PrefixLookupRan(last) =>
        LET n == Cardinality(Selected(last.arg))
        IN  /\ n = 0 => /\ last.outcome = "no_match"
                        /\ last.id = <<>>
                        /\ last.rows = <<>>
            /\ n = 1 => /\ last.outcome = "ok"
                        /\ Selected(last.arg) = {last.id}
                        /\ Len(last.rows) = 1
                        /\ last.rows[1] \in Range(intents)
                        /\ last.rows[1].id = last.id
            /\ n >= 2 => /\ last.outcome = "ambiguous"
                         /\ last.matches = Selected(last.arg)
                         /\ last.id = <<>>
                         /\ last.rows = <<>>

C4_Witness ==
    /\ PrefixLookupRan(last)
    /\ last.outcome = "ambiguous"
    /\ Cardinality(last.matches) >= 2

\* C5: once `init` has succeeded, with any `new` since, another `init`
\* succeeds and changes neither intent.db (its tables, its rows) nor
\* meta.json (its created_at included).
C5_InitIdempotent ==
    [][(initDone /\ last'.op = "init")
        => (last'.outcome = "ok" /\ UNCHANGED files)]_vars

C5_Witness ==
    /\ last.op = "init"
    /\ last.again
    /\ last.outcome = "ok"
    /\ newCount >= 1

\* The descriptor is an object that has the three required fields.
DescriptorValid(m) == m.kind = "object" /\ RequiredFields \subseteq m.keys

InitReachedMeta(cmd) ==
    InitReachedSchema(cmd) /\ cmd.outcome # "schema_mismatch"

\* C6: ensure_meta_json writes meta.json anew (the repository root, the
\* time, schema_version "0.1") exactly when the file is missing, empty,
\* unparsable or not an object with the three required fields, whatever
\* the content, and leaves it alone otherwise; it does not crash.
C6_RewrittenExactlyWhenInvalid ==
    [][InitReachedMeta(last')
        => /\ last'.outcome = "ok"
           /\ IF DescriptorValid(meta)
              THEN meta' = meta
              ELSE \E now \in Times :
                     meta' = MetaData(find_repo_root(markers, cwd).root, now)]_vars

\* What the two complete scripts say, field by field.
Typed(script) ==
    IF script = ScriptA
    THEN [title |-> <<"A">>, problem |-> <<"x", NL, NL, "y">>,
          context |-> <<>>, constraints |-> <<"x">>]
    ELSE [title |-> <<"B">>, problem |-> <<>>,
          context |-> <<NL, "x">>, constraints |-> <<>>]

\* C7: after `new` has stored an intent and reported its id, `show` with
\* that 36-character id finds exactly that record: the title (the typed
\* line without the white space around it) and the three fields as typed,
\* status draft, created_at equal to updated_at. And whatever `show`
\* prints for a full id is the stored record of that id.
C7_CreateThenFetch ==
    /\ (last.op = "new" /\ last.outcome = "ok") =>
          LET shown == ShowIntent(intents, last.id)
              typed == Typed(last.arg)
          IN  /\ Len(last.id) = UuidLen
              /\ shown.outcome = "ok"
              /\ ~shown.prefixed
              /\ Len(shown.rows) = 1
              /\ shown.rows[1].id = last.id
              /\ shown.rows[1].title = typed.title
              /\ shown.rows[1].problem = typed.problem
              /\ shown.rows[1].context = typed.context
              /\ shown.rows[1].constraints = typed.constraints
              /\ shown.rows[1].status = "draft"
              /\ shown.rows[1].created_at = shown.rows[1].updated_at
    /\ (last.op = "show" /\ Len(last.arg) = UuidLen /\ last.outcome = "ok") =>
          /\ Len(last.rows) = 1
          /\ last.rows[1].id = last.arg
          /\ last.rows[1] \in Range(intents)
          /\ last.rows[1].status = "draft"
          /\ last.rows[1].created_at = last.rows[1].updated_at

C7_Witness ==
    /\ last.op = "show"
    /\ Len(last.arg) = UuidLen
    /\ last.outcome = "ok"
    /\ newCount = 2

\* The place of a stored id in the order of creation.
CreatedIndex(id) == CHOOSE i \in DOMAIN intents : intents[i].id = id

ListsEveryIntentOnce(cmd) ==
    /\ Len(cmd.rows) = newCount
    /\ Len(cmd.rows) = Len(intents)
    /\ \A k \in DOMAIN intents :
          \E i \in DOMAIN cmd.rows : cmd.rows[i] = Listed(intents[k])

\* C8, as claimed: after N successful `new`, `list` returns exactly N
\* records, one for each intent, and an intent created later is never
\* listed after an intent created earlier.
C8_ListedInCreationOrder ==
    (last.op = "list" /\ last.outcome = "ok") =>
        /\ ListsEveryIntentOnce(last)
        /\ \A i \in DOMAIN last.rows, j \in DOMAIN last.rows :
              i < j => CreatedIndex(last.rows[i].id) > CreatedIndex(last.rows[j].id)

\* C8, amended: after N successful `new`, `list` returns exactly N
\* records, one for each intent, ordered by the stored created_at text
\* descending: an intent whose created_at is greater is never listed after
\* one whose created_at is smaller.
C8_ListedByCreatedAtDescending ==
    (last.op = "list" /\ last.outcome = "ok") =>
        /\ ListsEveryIntentOnce(last)
        /\ \A i \in DOMAIN last.rows, j \in DOMAIN last.rows :
              i < j => ~TextLess(last.rows[i].created_at, last.rows[j].created_at)

C8_Witness ==
    /\ last.op = "list"
    /\ last.outcome = "ok"
    /\ Len(last.rows) >= 2
    /\ TextLess(intents[1].created_at, intents[2].created_at)

AllDraft ==
    \A i \in DOMAIN intents :
        intents[i].status = "draft" /\ intents[i].updated_at = intents[i].created_at

\* C9: no command deletes a stored intent or changes any of its fields;
\* only a successful `new` changes the stored intents, and it adds exactly
\* one; so every stored intent has status draft and updated_at equal to
\* created_at.
C9_AppendOnly ==
    [][/\ Len(intents') >= Len(intents)
       /\ SubSeq(intents', 1, Len(intents)) = intents
       /\ IF last'.op = "new" /\ last'.outcome = "ok"
          THEN /\ Len(intents') = Len(intents) + 1
               /\ intents'[Len(intents')].id \notin RowIds(intents)
          ELSE intents' = intents
       /\ AllDraft']_vars

C9_Witness ==
    /\ last.op = "new"
    /\ last.outcome = "IntegrityError"
    /\ Len(intents) >= 1

\* Where the first run of three consecutive empty lines starts, or 0.
FirstRun(input) ==
    LET starts == {i \in 1..(Len(input) - 2) :
                      input[i] = <<>> /\ input[i + 1] = <<>> /\ input[i + 2] = <<>>}
    IN  IF starts = {} THEN 0
        ELSE CHOOSE i \in starts : \A k \in starts : i <= k

\* C10: read_multiline stops at the first three consecutive empty lines
\* and returns the lines before those three joined by newlines: empty
\* lines before them are kept, no other line is lost, and none of the
\* three is in the result; the lines after them are left unread.
C10_ReadsUpToTerminator ==
    (rm.called /\ FirstRun(rm.input) > 0) =>
        LET k == FirstRun(rm.input)
            content == SubSeq(rm.input, 1, k - 1)
        IN  /\ ~rm.eof
            /\ rm.text = Join(content)
            /\ Len(rm.text) = Len(content) - 1
                   + Cardinality({i \in DOMAIN content : content[i] # <<>>})
               \/ content = <<>>
            /\ rm.rest = SubSeq(rm.input, k + 3, Len(rm.input))

C10_Witness ==
    /\ rm.called
    /\ ~rm.eof
    /\ rm.input = <<Blank, <<"x">>, Blank, Blank, <<" ">>, Blank, Blank, Blank>>
    /\ rm.text = <<NL, "x", NL, NL, NL, " ">>

====
